---- MODULE Spec2Model ----
(***************************************************************************)
(* AmyPET: acquisition classification (explore_input), frame alignment     *)
(* (align_suvr), static image building (preproc_suvr), VOI sampling        *)
(* (extract_vois) and SUVr extraction (voi_process), as state machines     *)
(* translated from src/amypet.                                             *)
(***************************************************************************)
EXTENDS Integers, Sequences, FiniteSets, TLC

VARIABLES
    \* ---- explore_input (src/amypet/preproc.py) ----
    msrs,          \* list of DICOM series groups found in the input folder
    suvr_win_def,  \* argument: "None" or <<w0, w1>>
    tracer,        \* argument / local: "None" or a key of suvr_twindow
    tracer_,       \* local list of probable tracers ("unbound" before set)
    gi,            \* number of iterations of `for m in msrs` started
    msrs_t,        \* time-sorted series, one per processed group
    msrs_class,    \* list of acquisition descriptors
    acq_type,      \* local of the last iteration
    t_frms,        \* local of the last iteration: frame timings
    ei_warn,       \* groups (by position) for which the coverage warning was logged
    ei_pc,         \* "idle" | "loop" | "returned" | "raised"
    ei_exc,        \* exception that left explore_input ("" when none)
    \* ---- align_suvr (src/amypet/preproc.py) ----
    frms,          \* argument suvr_descr['frms']: the selected frames
    reg_force,     \* argument
    niidir,        \* the entries of the folder NIfTI_SUVr
    al_run,        \* number of calls of align_suvr started
    al_prev,       \* how the previous call ended: "none" | "returned" | its exception
    al_pc,         \* control position of the current call
    al_exc,        \* exception that left the current call ("" when none)
    al_bound,      \* names of the locals assigned so far in the current call
    nii_frms,      \* local: converted frame files
    R,             \* local: motion metric matrix
    S,             \* local: affine file per ordered pair
    ck,            \* number of iterations of the combinations loop done
    rfrm,          \* local: reference frame
    ifrm,          \* loop variable of the resampling loop
    niiim,         \* local: the composite, one slot per frame
    al_conv,       \* dcm2niix runs of the current call
    al_regs,       \* coreg_spm calls of the current call: <<ref, flo, result>>, the
                   \* result <<metric>> of a call that returned, <<>> of one that raised
    al_rsmpl,      \* resample_spm calls of the current call, <<ref, flo, aff>>
    al_deleted,    \* entries removed by the current call
    al_ret,        \* value returned by the current call ("none" before)
    \* ---- preproc_suvr (src/amypet/suvr_tools.py) ----
    imdct_im,      \* the dynamic image read from fpet_nii: one intensity per frame
    frames,        \* argument: list of 0-based frame indices; <<>> for None or []
    force,         \* argument
    com_correction,\* argument
    fstat,         \* content of the static file on disk: <<>> when absent
    fcom,          \* whether the centre-of-mass corrected file is on disk
    ps_run,        \* number of calls of preproc_suvr started
    ps_pc,         \* control position of the current call
    ps_exc,        \* exception that left the current call ("" when none)
    ps_frames,     \* local `frames` after lines 107-110
    ps_bound,      \* names of the locals assigned so far in the current call
    ps_sums,       \* summations over frames done by the current call
    ps_writes,     \* array2nii calls of the current call
    ps_coms,       \* centre_mass_corr calls of the current call
    ps_ret,        \* whether the current call has returned its dictionary
    \* ---- extract_vois (src/amypet/suvr_tools.py) ----
    im,            \* the PET array: [ndim, data], data a list of frames of voxels
    lbls,          \* the label image, one label per voxel
    voi_dct,       \* the VOI dictionary in its order: list of [voi, labels]
    atlas_mask,    \* argument: one 0/1 entry per voxel; <<>> for None
    output_masks,  \* argument
    vk,            \* number of iterations of `for k, voi in enumerate(voi_dct)` started
    out,           \* the output dictionary in insertion order
    ev_pc,         \* control position
    ev_exc,        \* exception that left extract_vois ("" when none)
    \* ---- voi_process (src/amypet/suvr_tools.py) ----
    paths_exist,   \* whether petpth exists and t1wpth, lblpth are files
    voi_given,     \* whether the argument voi_dct is a dictionary (not None)
    ref_voi,       \* argument: [given, names]; given is FALSE for None
    t1_bias_corr,  \* argument
    vp_pc,         \* control position
    vp_exc,        \* exception that left voi_process ("" when none)
    vp_out,        \* keys of the local dictionary `out` assigned so far
    vp_suvr        \* ratios stored in the local dictionary `suvr`: {<<rvoi, voi, ratio>>}

ei_vars == <<msrs, suvr_win_def, tracer, tracer_, gi, msrs_t, msrs_class,
             acq_type, t_frms, ei_warn, ei_pc, ei_exc>>

al_vars == <<frms, reg_force, niidir, al_run, al_prev, al_pc, al_exc, al_bound, nii_frms, R, S, ck,
             rfrm, ifrm, niiim, al_conv, al_regs, al_rsmpl, al_deleted, al_ret>>

ps_vars == <<imdct_im, frames, force, com_correction, fstat, fcom, ps_run, ps_pc,
             ps_exc, ps_frames, ps_bound, ps_sums, ps_writes, ps_coms, ps_ret>>

ev_vars == <<im, lbls, voi_dct, atlas_mask, output_masks, vk, out, ev_pc, ev_exc>>

vp_vars == <<paths_exist, voi_given, ref_voi, t1_bias_corr, vp_pc, vp_exc, vp_out, vp_suvr>>

vars == <<ei_vars, al_vars, ps_vars, ev_vars, vp_vars>>

\* voi_process is not running
VoiIdle ==
    /\ paths_exist = TRUE
    /\ voi_given = TRUE
    /\ ref_voi = [given |-> FALSE, names |-> <<>>]
    /\ t1_bias_corr = TRUE
    /\ vp_pc = "idle"
    /\ vp_exc = ""
    /\ vp_out = {}
    /\ vp_suvr = {}

\* extract_vois is not running
ExtractIdle ==
    /\ im = [ndim |-> 3, data |-> <<>>]
    /\ lbls = <<>>
    /\ voi_dct = <<>>
    /\ atlas_mask = <<>>
    /\ output_masks = FALSE
    /\ vk = 0
    /\ out = <<>>
    /\ ev_pc = "idle"
    /\ ev_exc = ""

\* preproc_suvr is not running
PreprocIdle ==
    /\ imdct_im = <<>>
    /\ frames = <<>>
    /\ force = TRUE
    /\ com_correction = TRUE
    /\ fstat = <<>>
    /\ fcom = FALSE
    /\ ps_run = 0
    /\ ps_pc = "idle"
    /\ ps_exc = ""
    /\ ps_frames = <<>>
    /\ ps_bound = {}
    /\ ps_sums = 0
    /\ ps_writes = 0
    /\ ps_coms = 0
    /\ ps_ret = FALSE

\* explore_input is not running
ExploreIdle ==
    /\ msrs = <<>>
    /\ suvr_win_def = "None"
    /\ tracer = "None"
    /\ tracer_ = "unbound"
    /\ gi = 0
    /\ msrs_t = <<>>
    /\ msrs_class = <<>>
    /\ acq_type = "unbound"
    /\ t_frms = <<>>
    /\ ei_warn = {}
    /\ ei_pc = "idle"
    /\ ei_exc = ""

\* align_suvr is not running
AlignIdle ==
    /\ frms = <<>>
    /\ reg_force = FALSE
    /\ niidir = {}
    /\ al_run = 0
    /\ al_prev = "none"
    /\ al_pc = "idle"
    /\ al_exc = ""
    /\ al_bound = {}
    /\ nii_frms = <<>>
    /\ R = <<>>
    /\ S = <<>>
    /\ ck = 0
    /\ rfrm = 0
    /\ ifrm = 0
    /\ niiim = <<>>
    /\ al_conv = 0
    /\ al_regs = <<>>
    /\ al_rsmpl = <<>>
    /\ al_deleted = {}
    /\ al_ret = "none"

----------------------------------------------------------------------------
(* Module constants of preproc.py                                          *)

\* suvr_twindow: [t_start, t_stop, duration] per tracer, in seconds
suvr_twindow ==
    [flute |-> <<90 * 60, 110 * 60, 1200>>,
     fbb   |-> <<90 * 60, 110 * 60, 1200>>,
     fbp   |-> <<50 * 60, 60 * 60, 600>>]

\* iteration order of the dict suvr_twindow / tracer_names
tracer_keys == <<"flute", "fbb", "fbp">>

\* margin = 0.1, kept as the fraction margin_num / margin_den
margin_num == 1
margin_den == 10

break_time == 1800

breakdyn_t == <<1200, 2400>>

fulldyn_time == 3600

\* seconds in a day: timedelta.seconds is the remainder below one day
DaySeconds == 86400

----------------------------------------------------------------------------
(* Pure helpers of explore_input                                           *)

\* x > y*(1-margin)
GtLowMargin(x, y) == x * margin_den > y * (margin_den - margin_num)

\* x < y*(1+margin)
LtHighMargin(x, y) == x * margin_den < y * (margin_den + margin_num)

RECURSIVE InsertByTacq(_, _)
InsertByTacq(f, s) ==
    IF s = <<>> THEN <<f>>
    ELSE IF f.tacq < Head(s).tacq THEN <<f>> \o s
    ELSE <<Head(s)>> \o InsertByTacq(f, Tail(s))

\* sorted(m.items(), key=tacq): stable, ascending
RECURSIVE SortByTacq(_)
SortByTacq(s) ==
    IF s = <<>> THEN <<>>
    ELSE InsertByTacq(s[Len(s)], SortByTacq(SubSeq(s, 1, Len(s) - 1)))

\* (t0.seconds, t1.seconds) of one frame relative to radio_start_time
FrameTiming(f, radio_start) ==
    <<(f.tacq - radio_start) % DaySeconds,
      (f.tacq + f.frm_dur - radio_start) % DaySeconds>>

Timings(srs_t, radio_start) ==
    [k \in 1..Len(srs_t) |-> FrameTiming(srs_t[k], radio_start)]

\* AcqType with the coffee-break window closed at the wrong end
AcqTypeBreakOpenAbove(tf) ==
    LET first == tf[1][1]
        last  == tf[Len(tf)][2]
    IN  IF first < 1
        THEN IF last >= breakdyn_t[1] /\ last < breakdyn_t[2] THEN "breakdyn"
             ELSE IF last >= fulldyn_time THEN "fulldyn"
             ELSE "None"
        ELSE IF first > 1 THEN "static"
        ELSE "None"

\* acq_type from the first start and the last stop
AcqType(tf) ==
    LET first == tf[1][1]
        last  == tf[Len(tf)][2]
    IN  IF first < 1
        THEN IF last > breakdyn_t[1] /\ last <= breakdyn_t[2] THEN "breakdyn"
             ELSE IF last >= fulldyn_time THEN "fulldyn"
             ELSE "None"
        ELSE IF first > 1 THEN "static"
        ELSE "None"

\* the tracer named by the DICOM tracer string, the last matching key winning;
\* the string is abstracted to "absent" (no such key), "other" (no synonym
\* matches) or the key whose synonym it contains
MatchTracer(cur, tag) ==
    IF tag \in {"flute", "fbb", "fbp"} THEN tag ELSE cur

RECURSIVE ProbableTracers(_, _, _)
ProbableTracers(i, acq_dur, first) ==
    IF i > Len(tracer_keys) THEN <<>>
    ELSE LET t   == tracer_keys[i]
             dur == suvr_twindow[t][3]
             hit == /\ GtLowMargin(acq_dur, dur)
                    /\ LtHighMargin(acq_dur, dur)
                    /\ GtLowMargin(first, suvr_twindow[t][1])
         IN  (IF hit THEN <<t>> ELSE <<>>) \o ProbableTracers(i + 1, acq_dur, first)

AbsDiff(x, y) == IF x >= y THEN x - y ELSE y - x

\* the last element of minimal distance
RECURSIVE MinByDistLastWins(_, _)
MinByDistLastWins(ts, target) ==
    IF Len(ts) = 1 THEN ts[1]
    ELSE LET rest == MinByDistLastWins(Tail(ts), target)
         IN  IF AbsDiff(ts[1], target) < AbsDiff(rest, target) THEN ts[1] ELSE rest

\* min(ts, key=lambda x: abs(x-target)): the first element of minimal distance
RECURSIVE MinByDist(_, _)
MinByDist(ts, target) ==
    IF Len(ts) = 1 THEN ts[1]
    ELSE LET rest == MinByDist(Tail(ts), target)
         IN  IF AbsDiff(ts[1], target) <= AbsDiff(rest, target) THEN ts[1] ELSE rest

\* list.index(v), 0-based
IndexOf(ts, v) == (CHOOSE i \in 1..Len(ts) : ts[i] = v /\ \A j \in 1..(i - 1) : ts[j] # v) - 1

Starts(tf) == [k \in 1..Len(tf) |-> tf[k][1]]
Stops(tf)  == [k \in 1..Len(tf) |-> tf[k][2]]

Keys(srs_t) == [k \in 1..Len(srs_t) |-> srs_t[k].key]

\* [s for i,s in enumerate(srs_t) if i in range(frm_0, frm_1+1)]
FrmsInRange(srs_t, frm_0, frm_1) == SubSeq(Keys(srs_t), frm_0 + 1, frm_1 + 1)

\* descriptor of the nearest frames to [w0, w1]
NearestDescr(acq, srs_t, tf, w0, w1) ==
    LET t0 == MinByDist(Starts(tf), w0)
        t1 == MinByDist(Stops(tf), w1)
        frm_0 == IndexOf(Starts(tf), t0)
        frm_1 == IndexOf(Stops(tf), t1)
    IN  [acq |-> acq, time |-> <<t0, t1>>, timings |-> tf,
         idxs |-> <<frm_0, frm_1>>, frms |-> FrmsInRange(srs_t, frm_0, frm_1)]

\* descriptor of the whole frame range (no 'timings' entry)
FallbackDescr(acq, srs_t, tf) ==
    [acq |-> acq, time |-> <<Starts(tf)[1], Stops(tf)[Len(tf)]>>,
     idxs |-> <<0, Len(tf) - 1>>, frms |-> Keys(srs_t)]

\* the test of line 200, for a given window
StaticCovered(tf, win) ==
    /\ GtLowMargin(tf[1][1], win[1])
    /\ LtHighMargin(tf[Len(tf)][2], win[2])

\* suvr_win of lines 203-206
SuvrWin(win_def, trc_) ==
    IF win_def = "None" THEN SubSeq(suvr_twindow[trc_[1]], 1, 2) ELSE win_def

----------------------------------------------------------------------------
(* explore_input: one action per outcome of an iteration of `for m in msrs` *)

\* locals computed by lines 136-193 for the group about to be processed
IterLocals ==
    LET m       == msrs[gi + 1]
        srs_t   == SortByTacq(m.frms)
        tf      == Timings(srs_t, m.radio_start)
        acq_dur == tf[Len(tf)][2] - tf[1][1]
        acq     == AcqType(tf)
        trc     == IF tracer = "None" /\ m.tracer # "absent"
                   THEN MatchTracer(tracer, m.tracer) ELSE tracer
        trc_    == IF tracer = "None"
                   THEN (IF trc # "None" THEN <<trc>> ELSE <<>>)
                        \o (IF acq = "static"
                            THEN ProbableTracers(1, acq_dur, tf[1][1]) ELSE <<>>)
                   ELSE tracer_
    IN  [srs_t |-> srs_t, tf |-> tf, acq |-> acq, tracer |-> trc, tracer_ |-> trc_]

\* state left by lines 136-193, common to every outcome
IterCommon(L) ==
    /\ ei_pc = "loop"
    /\ gi < Len(msrs)
    /\ gi' = gi + 1
    /\ msrs_t' = Append(msrs_t, L.srs_t)
    /\ acq_type' = L.acq
    /\ t_frms' = L.tf
    /\ tracer' = L.tracer
    /\ tracer_' = L.tracer_
    /\ UNCHANGED <<msrs, suvr_win_def>>
    /\ UNCHANGED <<al_vars, ps_vars, ev_vars, vp_vars>>

\* line 200 subscripts suvr_win_def before line 203 tests it for None
GroupStaticNoWindow ==
    LET L == IterLocals IN
    /\ IterCommon(L)
    /\ L.acq = "static"
    /\ suvr_win_def = "None"
    /\ ei_pc' = "raised"
    /\ ei_exc' = "TypeError"
    /\ UNCHANGED <<msrs_class, ei_warn>>

\* lines 200-220
GroupStaticSelected ==
    LET L == IterLocals IN
    /\ IterCommon(L)
    /\ L.acq = "static"
    /\ suvr_win_def # "None"
    /\ StaticCovered(L.tf, suvr_win_def)
    /\ LET suvr_win == SuvrWin(suvr_win_def, L.tracer_)
       IN  msrs_class' = Append(msrs_class,
               NearestDescr(<<"static", "suvr">>, L.srs_t, L.tf, suvr_win[1], suvr_win[2]))
    /\ UNCHANGED <<ei_warn, ei_pc, ei_exc>>

\* lines 222-232
GroupStaticFallback ==
    LET L == IterLocals IN
    /\ IterCommon(L)
    /\ L.acq = "static"
    /\ suvr_win_def # "None"
    /\ ~StaticCovered(L.tf, suvr_win_def)
    /\ ei_warn' = ei_warn \cup {gi + 1}
    /\ msrs_class' = Append(msrs_class, FallbackDescr(<<"static">>, L.srs_t, L.tf))
    /\ UNCHANGED <<ei_pc, ei_exc>>

\* lines 234-248
GroupBreakdyn ==
    LET L == IterLocals IN
    /\ IterCommon(L)
    /\ L.acq = "breakdyn"
    /\ msrs_class' = Append(msrs_class,
           NearestDescr(<<"breakdyn">>, L.srs_t, L.tf, 0, break_time))
    /\ UNCHANGED <<ei_warn, ei_pc, ei_exc>>

\* lines 250-264
GroupFulldyn ==
    LET L == IterLocals IN
    /\ IterCommon(L)
    /\ L.acq = "fulldyn"
    /\ msrs_class' = Append(msrs_class,
           NearestDescr(<<"fulldyn">>, L.srs_t, L.tf, 0, fulldyn_time))
    /\ UNCHANGED <<ei_warn, ei_pc, ei_exc>>

\* acq_type stays None: no branch of lines 199-264 is taken
GroupUnclassified ==
    LET L == IterLocals IN
    /\ IterCommon(L)
    /\ L.acq = "None"
    /\ UNCHANGED <<msrs_class, ei_warn, ei_pc, ei_exc>>

\* line 269
ExploreReturn ==
    /\ ei_pc = "loop"
    /\ gi = Len(msrs)
    /\ ei_pc' = "returned"
    /\ UNCHANGED <<msrs, suvr_win_def, tracer, tracer_, gi, msrs_t, msrs_class,
                   acq_type, t_frms, ei_warn, ei_exc>>
    /\ UNCHANGED <<al_vars, ps_vars, ev_vars, vp_vars>>

ExploreNext ==
    \/ GroupStaticNoWindow
    \/ GroupStaticSelected
    \/ GroupStaticFallback
    \/ GroupBreakdyn
    \/ GroupFulldyn
    \/ GroupUnclassified
    \/ ExploreReturn

----------------------------------------------------------------------------
(* Inputs of explore_input                                                 *)

MaxFrames == 4
MaxGroups == 2

\* acquisition time of the first frame of a series, seconds after midnight
FirstAcq == 10 * 3600

\* first frame's acquisition time minus the administration start time
Delays == {0, 1, 2, 3000, 5400, 0 - 600, 90000}

FrameDurs == {600, 900}

DcmTracers == {"absent", "other", "fbp"}

TracerArgs == {"None", "fbp"}

WinDefs == {"None", <<3000, 3600>>, <<5400, 6600>>, <<3320, 3850>>, <<100, 3000>>,
            <<3300, 3900>>}

AcqOrder(n, dur) ==
    [i \in 1..n |-> [key |-> i, tacq |-> FirstAcq + (i - 1) * dur, frm_dur |-> dur]]

Reverse(s) == [i \in 1..Len(s) |-> s[Len(s) + 1 - i]]

\* a series group as nimpa.dcmsort returns it: n contiguous frames, listed in
\* acquisition order or in the reverse of it
Group(delay, dur, n, rev, tag) ==
    [radio_start |-> FirstAcq - delay,
     tracer |-> tag,
     frms |-> IF rev THEN Reverse(AcqOrder(n, dur)) ELSE AcqOrder(n, dur)]

Groups ==
    {Group(d, dur, n, rev, tag) :
        d \in Delays, dur \in FrameDurs, n \in 1..MaxFrames,
        rev \in BOOLEAN, tag \in DcmTracers}

\* the groups of the multi-group runs
FewGroups ==
    {Group(d, 900, n, FALSE, "absent") : d \in {0, 1, 3000}, n \in {1, 2, MaxFrames}}

RECURSIVE SeqsUpTo(_, _)
SeqsUpTo(U, n) ==
    IF n = 0 THEN {<<>>}
    ELSE LET shorter == SeqsUpTo(U, n - 1)
         IN  shorter \cup {Append(s, x) : s \in shorter, x \in U}

ExploreStart ==
    /\ suvr_win_def \in WinDefs
    /\ tracer \in TracerArgs
    /\ tracer_ = "unbound"
    /\ gi = 0
    /\ msrs_t = <<>>
    /\ msrs_class = <<>>
    /\ acq_type = "unbound"
    /\ t_frms = <<>>
    /\ ei_warn = {}
    /\ ei_pc = "loop"
    /\ ei_exc = ""

\* explore_input on a folder holding one series group
InitClassify ==
    /\ msrs \in {<<m>> : m \in Groups}
    /\ ExploreStart
    /\ AlignIdle
    /\ PreprocIdle
    /\ ExtractIdle
    /\ VoiIdle

\* explore_input on a folder holding up to MaxGroups series groups
InitExplore ==
    /\ msrs \in SeqsUpTo(FewGroups, MaxGroups)
    /\ ExploreStart
    /\ AlignIdle
    /\ PreprocIdle
    /\ ExtractIdle
    /\ VoiIdle

SpecClassify == InitClassify /\ [][ExploreNext]_vars

SpecExplore == InitExplore /\ [][ExploreNext]_vars

----------------------------------------------------------------------------
(* Claims about explore_input                                              *)

FirstStart(tf) == tf[1][1]
LastStop(tf) == tf[Len(tf)][2]

\* the kind by the three rules applied in the stated order, first match wins
KindFirstMatch(tf) ==
    CASE FirstStart(tf) < 1 /\ LastStop(tf) > 1200 /\ LastStop(tf) <= 2400 -> "breakdyn"
      [] LastStop(tf) >= 3600 -> "fulldyn"
      [] FirstStart(tf) > 1 -> "static"
      [] OTHER -> "None"

\* the kind when 'fulldyn' also requires a first-frame start below 1 s
KindByStart(tf) ==
    CASE FirstStart(tf) > 1 -> "static"
      [] FirstStart(tf) < 1 /\ LastStop(tf) >= 3600 -> "fulldyn"
      [] FirstStart(tf) < 1 /\ LastStop(tf) > 1200 /\ LastStop(tf) <= 2400 -> "breakdyn"
      [] OTHER -> "None"

\* C1 (as stated): the kind of every processed group is given by the rules
\* breakdyn, then fulldyn (last stop >= 3600 s, whatever the start), then
\* static, the first match winning.
C1_KindFirstMatchWins ==
    gi > 0 => acq_type = KindFirstMatch(t_frms)

\* C1 (amended): a group is 'static' whenever its first frame starts after
\* 1 s, also when its last frame stops at or after 3600 s; 'fulldyn' and
\* 'breakdyn' are assigned only to groups starting before 1 s; the descriptor
\* appended for the group carries that kind, and no descriptor is appended
\* when no kind is assigned.
C1_KindByStartThenStop ==
    gi > 0 =>
        /\ acq_type = KindByStart(t_frms)
        /\ ei_exc = "" =>
              IF KindByStart(t_frms) = "None" THEN msrs_class = <<>>
              ELSE Len(msrs_class) = 1 /\ msrs_class[1].acq[1] = KindByStart(t_frms)

\* a late static acquisition: starts after 1 s and stops at or after 3600 s
C1_LateStaticClassified ==
    /\ gi = 1
    /\ ei_exc = ""
    /\ FirstStart(t_frms) > 1
    /\ LastStop(t_frms) >= 3600
    /\ Len(msrs_class) = 1
    /\ msrs_class[1].acq[1] = "static"

\* the window is contained in the acquisition, each bound missing by <= 10%
WindowContained(tf, win) ==
    /\ FirstStart(tf) * 10 <= win[1] * 11
    /\ LastStop(tf) * 10 >= win[2] * 9

\* C2: for a static group and a given window, the nearest frames are selected
\* whenever the acquisition contains the window within 10%, and otherwise the
\* coverage warning is logged and the fallback descriptor of all n frames,
\* idxs = (0, n-1), is returned.
C2_StaticSelectsWhenWindowContained ==
    (gi = 1 /\ acq_type = "static" /\ suvr_win_def # "None") =>
        /\ ei_exc = ""
        /\ Len(msrs_class) = 1
        /\ IF WindowContained(t_frms, suvr_win_def)
           THEN /\ ei_warn = {}
                /\ msrs_class[1] = NearestDescr(<<"static", "suvr">>, msrs_t[1], t_frms,
                                                suvr_win_def[1], suvr_win_def[2])
           ELSE /\ ei_warn = {1}
                /\ msrs_class[1].idxs = <<0, Len(t_frms) - 1>>
                /\ msrs_class[1].frms = Keys(msrs_t[1])

\* C3: without a user window a static group is classified from the tracer's
\* default window without error; one frame spanning [3000, 3600] s with tracer
\* fbp gives kind static, no warning and the full frame set.
C3_DefaultWindowCompletes ==
    (gi = 1 /\ acq_type = "static" /\ suvr_win_def = "None") =>
        /\ ei_exc = ""
        /\ Len(msrs_class) = 1
        /\ msrs_class[1].acq[1] = "static"
        /\ (t_frms = <<(<<3000, 3600>>)>> /\ tracer = "fbp") =>
              /\ ei_warn = {}
              /\ msrs_class[1].frms = Keys(msrs_t[1])

\* C4: explore_input returns one descriptor per series group, in the order
\* of the returned series list, also for groups of undetermined kind.
C4_OneDescriptorPerGroup ==
    ei_pc = "returned" =>
        /\ Len(msrs_class) = Len(msrs_t)
        /\ \A i \in 1..Len(msrs_class) :
              msrs_class[i].idxs[2] <= Len(msrs_t[i]) - 1

\* the frames of the group processed last start at increasing times
IncreasingTacq ==
    gi > 0 /\ \A k \in 1..(Len(msrs_t[gi]) - 1) : msrs_t[gi][k].tacq < msrs_t[gi][k + 1].tacq

\* C13: for a group whose frames start at increasing acquisition times, the
\* timing pairs (t_start, t_stop) are non-decreasing in both components
\* along the frame order, whatever the administration start time.
C13_TimingsNonDecreasing ==
    IncreasingTacq =>
        \A k \in 1..(Len(t_frms) - 1) :
            /\ t_frms[k][1] <= t_frms[k + 1][1]
            /\ t_frms[k][2] <= t_frms[k + 1][2]


\* the first 0-based index of ts at minimal distance from the target
FirstNearest(ts, target) ==
    (CHOOSE i \in 1..Len(ts) :
        /\ \A j \in 1..Len(ts) : AbsDiff(ts[i], target) <= AbsDiff(ts[j], target)
        /\ \A j \in 1..(i - 1) : AbsDiff(ts[j], target) > AbsDiff(ts[i], target)) - 1

\* the descriptor was made by nearest-match selection
NearestMatched(d) == d.acq \in {<<"static", "suvr">>, <<"breakdyn">>, <<"fulldyn">>}

\* the window the selection of a descriptor aims at
WindowOf(d) ==
    CASE d.acq = <<"static", "suvr">> -> suvr_win_def
      [] d.acq = <<"breakdyn">> -> <<0, break_time>>
      [] d.acq = <<"fulldyn">> -> <<0, fulldyn_time>>

\* C17: in the nearest-match selection of static, breakdyn and fulldyn
\* groups the start index is the first index whose t_start is at minimal
\* distance from the window start and the stop index the first index whose
\* t_stop is at minimal distance from the window stop; t_starts
\* [0, 600, 1200, 1800] with target 650 give the start index 1.
C17_NearestMatchFirstIndexWins ==
    /\ \A k \in 1..Len(msrs_class) :
          NearestMatched(msrs_class[k]) =>
              /\ msrs_class[k].idxs[1] = FirstNearest(Starts(t_frms), WindowOf(msrs_class[k])[1])
              /\ msrs_class[k].idxs[2] = FirstNearest(Stops(t_frms), WindowOf(msrs_class[k])[2])
    /\ IndexOf(<<0, 600, 1200, 1800>>, MinByDist(<<0, 600, 1200, 1800>>, 650)) = 1

\* a static group whose first two frames are equally near the window start
\* and equally near the window stop
C17_TieAtBothWindowEnds ==
    /\ Len(msrs_class) = 1
    /\ msrs_class[1].acq = <<"static", "suvr">>
    /\ Len(t_frms) >= 2
    /\ AbsDiff(t_frms[1][1], suvr_win_def[1]) = AbsDiff(t_frms[2][1], suvr_win_def[1])
    /\ AbsDiff(t_frms[1][2], suvr_win_def[2]) = AbsDiff(t_frms[2][2], suvr_win_def[2])
    /\ msrs_class[1].idxs = <<0, 0>>


\* C18: every descriptor selects a non-empty frame range: its inclusive
\* index pair (i0, i1) has 0 <= i0 <= i1 <= n-1 and its frame list is made
\* of the i1-i0+1 frames at those positions of the time-sorted group, for
\* every window [w0, w1] with w0 < w1.
C18_SelectedRangeNonEmpty ==
    \A k \in 1..Len(msrs_class) :
        LET i0 == msrs_class[k].idxs[1]
            i1 == msrs_class[k].idxs[2]
        IN  /\ 0 <= i0
            /\ i0 <= i1
            /\ i1 <= Len(t_frms) - 1
            /\ Len(msrs_class[k].frms) = i1 - i0 + 1
            /\ msrs_class[k].frms = SubSeq(Keys(msrs_t[gi]), i0 + 1, i1 + 1)


----------------------------------------------------------------------------
(* align_suvr                                                              *)

MaxAlignFrames == 3
MaxRuns == 2

\* rotation+translation magnitudes a registration may report
Metrics == {0, 1}

\* entries of the folder NIfTI_SUVr
FAligned == <<"SUVr_aligned">>
SpmDir == <<"SPM-aligned">>
NiiFile(k) == <<"nii", k>>
AffFile(i, j) == <<"combi", i, j>>

NFrm == Len(frms)

FrmIdx == 0..(NFrm - 1)

\* itertools.combinations(range(n), 2), in its order of generation
RECURSIVE CombosFrom(_, _, _)
CombosFrom(i, j, n) ==
    IF i >= n - 1 THEN <<>>
    ELSE IF j >= n THEN CombosFrom(i + 1, i + 2, n)
    ELSE <<(<<i, j>>)>> \o CombosFrom(i, j + 1, n)

Combos(n) == CombosFrom(0, 1, n)

\* suvr_descr['frms'].index(k), 0-based
FrmIndex(k) == (CHOOSE i \in 1..Len(frms) : frms[i] = k /\ \A j \in 1..(i - 1) : frms[j] # k) - 1

RECURSIVE SumOver(_, _)
SumOver(f, D) ==
    IF D = {} THEN 0
    ELSE LET x == CHOOSE y \in D : TRUE IN f[x] + SumOver(f, D \ {x})

\* np.sum(R, axis=0): sum over the reference index, per floating frame
FSum(M, n) == [j \in 0..(n - 1) |-> SumOver([i \in 0..(n - 1) |-> M[<<i, j>>]], 0..(n - 1))]

\* np.sum(R, axis=1): sum over the floating index, per reference frame
RSum(M, n) == [i \in 0..(n - 1) |-> SumOver([j \in 0..(n - 1) |-> M[<<i, j>>]], 0..(n - 1))]

\* np.argmin: the first index of the minimum
ArgMin(v, n) ==
    CHOOSE i \in 0..(n - 1) :
        /\ \A j \in 0..(n - 1) : v[i] <= v[j]
        /\ \A j \in 0..(i - 1) : v[j] > v[i]

\* the reference frame chosen by the motion as floating frame alone
RefFrameFloatingOnly(M, n) == ArgMin(FSum(M, n), n)

\* np.argmin(fsum + rsum)
RefFrame(M, n) == ArgMin([i \in 0..(n - 1) |-> FSum(M, n)[i] + RSum(M, n)[i]], n)

AlignOthers == <<ei_vars, ps_vars, ev_vars, vp_vars>>

AlignLocals == <<al_bound, nii_frms, R, S, ck, rfrm, ifrm, niiim>>
AlignCalls == <<al_conv, al_regs, al_rsmpl, al_deleted>>
AlignArgs == <<frms, reg_force, al_run, al_prev>>

\* lines 295-314 with the aligned file present and reg_force unset: the
\* recomputation is skipped
AlignCacheHit ==
    /\ al_pc = "start"
    /\ ~(reg_force \/ FAligned \notin niidir)
    /\ niidir' = niidir \cup {SpmDir}
    /\ al_pc' = "return"
    /\ UNCHANGED <<AlignArgs, AlignLocals, AlignCalls, al_exc, al_ret>>
    /\ UNCHANGED AlignOthers

\* a purge that leaves the entries of NIfTI_SUVr in place
AlignPurgeKeepsFiles ==
    /\ al_pc = "start"
    /\ reg_force \/ FAligned \notin niidir
    /\ al_deleted' = {}
    /\ niidir' = niidir \cup {SpmDir}
    /\ nii_frms' = <<>>
    /\ al_bound' = al_bound \cup {"nii_frms"}
    /\ al_pc' = "convert"
    /\ UNCHANGED <<AlignArgs, R, S, ck, rfrm, ifrm, niiim, al_conv, al_regs, al_rsmpl,
                   al_exc, al_ret>>
    /\ UNCHANGED AlignOthers

\* lines 295-325: everything in NIfTI_SUVr is removed
AlignPurge ==
    /\ al_pc = "start"
    /\ reg_force \/ FAligned \notin niidir
    /\ al_deleted' = niidir \cup {SpmDir}
    /\ niidir' = {}
    /\ nii_frms' = <<>>
    /\ al_bound' = al_bound \cup {"nii_frms"}
    /\ al_pc' = "convert"
    /\ UNCHANGED <<AlignArgs, R, S, ck, rfrm, ifrm, niiim, al_conv, al_regs, al_rsmpl,
                   al_exc, al_ret>>
    /\ UNCHANGED AlignOthers

\* lines 329-343: the frame's DICOM folder is converted to one NIfTI file
ConvertFrame ==
    /\ al_pc = "convert"
    /\ Len(nii_frms) < NFrm
    /\ al_conv' = al_conv + 1
    /\ niidir' = niidir \cup {NiiFile(frms[Len(nii_frms) + 1])}
    /\ nii_frms' = Append(nii_frms, NiiFile(frms[Len(nii_frms) + 1]))
    /\ UNCHANGED <<AlignArgs, al_bound, R, S, ck, rfrm, ifrm, niiim, al_regs, al_rsmpl, al_deleted,
                   al_pc, al_exc, al_ret>>
    /\ UNCHANGED AlignOthers

\* lines 339-341: the glob finds no file, or more than one
ConvertMismatch ==
    /\ al_pc = "convert"
    /\ Len(nii_frms) < NFrm
    /\ al_conv' = al_conv + 1
    /\ \E made \in {{}, {NiiFile(frms[Len(nii_frms) + 1]), <<"nii_extra">>}} :
          niidir' = niidir \cup made
    /\ al_pc' = "raised"
    /\ al_exc' = "ValueError"
    /\ UNCHANGED <<AlignArgs, AlignLocals, al_regs, al_rsmpl, al_deleted, al_ret>>
    /\ UNCHANGED AlignOthers

\* lines 351-354
AlignInitMatrices ==
    /\ al_pc = "convert"
    /\ Len(nii_frms) = NFrm
    /\ R' = [c \in FrmIdx \X FrmIdx |-> 0]
    /\ S' = [c \in FrmIdx \X FrmIdx |-> "None"]
    /\ ck' = 0
    /\ al_bound' = al_bound \cup {"R", "S"}
    /\ al_pc' = "register"
    /\ UNCHANGED <<AlignArgs, niidir, nii_frms, rfrm, ifrm, niiim, AlignCalls, al_exc, al_ret>>
    /\ UNCHANGED AlignOthers

\* the pair of the next iteration of line 357
NextPair ==
    LET c == Combos(NFrm)[ck + 1]
    IN  <<FrmIndex(frms[c[1] + 1]), FrmIndex(frms[c[2] + 1])>>

\* RegisterPair with the metric of the other way registration stored in the
\* cell of the one way registration
RegisterPairOverwritesOneWay ==
    /\ al_pc = "register"
    /\ ck < Len(Combos(NFrm))
    /\ LET frm0 == NextPair[1]
           frm1 == NextPair[2]
       IN  \E m01 \in Metrics, m10 \in Metrics :
              /\ S' = [S EXCEPT ![<<frm0, frm1>>] = AffFile(frm0, frm1),
                                ![<<frm1, frm0>>] = AffFile(frm1, frm0)]
              /\ R' = [R EXCEPT ![<<frm0, frm1>>] = m10]
              /\ al_regs' = al_regs \o <<(<<frm0, frm1, <<m01>>>>), (<<frm1, frm0, <<m10>>>>)>>
              /\ niidir' = niidir \cup {AffFile(frm0, frm1), AffFile(frm1, frm0)}
    /\ ck' = ck + 1
    /\ UNCHANGED <<AlignArgs, al_bound, nii_frms, rfrm, ifrm, niiim, al_conv, al_rsmpl, al_deleted,
                   al_pc, al_exc, al_ret>>
    /\ UNCHANGED AlignOthers

\* lines 357-404: both registrations of one combination succeed
RegisterPair ==
    /\ al_pc = "register"
    /\ ck < Len(Combos(NFrm))
    /\ LET frm0 == NextPair[1]
           frm1 == NextPair[2]
       IN  \E m01 \in Metrics, m10 \in Metrics :
              /\ S' = [S EXCEPT ![<<frm0, frm1>>] = AffFile(frm0, frm1),
                                ![<<frm1, frm0>>] = AffFile(frm1, frm0)]
              /\ R' = [R EXCEPT ![<<frm0, frm1>>] = m01, ![<<frm1, frm0>>] = m10]
              /\ al_regs' = al_regs \o <<(<<frm0, frm1, <<m01>>>>), (<<frm1, frm0, <<m10>>>>)>>
              /\ niidir' = niidir \cup {AffFile(frm0, frm1), AffFile(frm1, frm0)}
    /\ ck' = ck + 1
    /\ UNCHANGED <<AlignArgs, al_bound, nii_frms, rfrm, ifrm, niiim, al_conv, al_rsmpl, al_deleted,
                   al_pc, al_exc, al_ret>>
    /\ UNCHANGED AlignOthers

\* line 367: the one way registration raises
RegisterFailsOneWay ==
    /\ al_pc = "register"
    /\ ck < Len(Combos(NFrm))
    /\ al_regs' = Append(al_regs, <<NextPair[1], NextPair[2], <<>>>>)
    /\ al_pc' = "raised"
    /\ al_exc' = "RegistrationError"
    /\ UNCHANGED <<AlignArgs, niidir, AlignLocals, al_conv, al_rsmpl, al_deleted, al_ret>>
    /\ UNCHANGED AlignOthers

\* line 387: the other way registration raises, after lines 380-384
RegisterFailsOtherWay ==
    /\ al_pc = "register"
    /\ ck < Len(Combos(NFrm))
    /\ LET frm0 == NextPair[1]
           frm1 == NextPair[2]
       IN  \E m01 \in Metrics :
              /\ S' = [S EXCEPT ![<<frm0, frm1>>] = AffFile(frm0, frm1)]
              /\ R' = [R EXCEPT ![<<frm0, frm1>>] = m01]
              /\ al_regs' = al_regs \o <<(<<frm0, frm1, <<m01>>>>), (<<frm1, frm0, <<>>>>)>>
              /\ niidir' = niidir \cup {AffFile(frm0, frm1)}
    /\ al_pc' = "raised"
    /\ al_exc' = "RegistrationError"
    /\ UNCHANGED <<AlignArgs, al_bound, nii_frms, ck, rfrm, ifrm, niiim, al_conv, al_rsmpl,
                   al_deleted, al_ret>>
    /\ UNCHANGED AlignOthers

\* lines 408-422: the reference frame is chosen and copied into its slot
SelectRef ==
    /\ al_pc = "register"
    /\ ck = Len(Combos(NFrm))
    /\ NFrm > 0
    /\ rfrm' = RefFrame(R, NFrm)
    /\ niiim' = [i \in FrmIdx |-> IF i = RefFrame(R, NFrm)
                                  THEN <<"copy", nii_frms[i + 1]>> ELSE <<"zeros">>]
    /\ ifrm' = 0
    /\ al_bound' = al_bound \cup {"rfrm", "niiim"}
    /\ al_pc' = "resample"
    /\ UNCHANGED <<AlignArgs, niidir, nii_frms, R, S, ck, AlignCalls, al_exc, al_ret>>
    /\ UNCHANGED AlignOthers

\* line 414 with no frame: np.argmin of an empty array raises
SelectRefEmpty ==
    /\ al_pc = "register"
    /\ ck = Len(Combos(NFrm))
    /\ NFrm = 0
    /\ al_pc' = "raised"
    /\ al_exc' = "ValueError"
    /\ UNCHANGED <<AlignArgs, niidir, AlignLocals, AlignCalls, al_ret>>
    /\ UNCHANGED AlignOthers

\* line 425: the reference frame is skipped
ResampleSkipRef ==
    /\ al_pc = "resample"
    /\ ifrm < NFrm
    /\ ifrm = rfrm
    /\ ifrm' = ifrm + 1
    /\ UNCHANGED <<AlignArgs, niidir, al_bound, nii_frms, R, S, ck, rfrm, niiim, AlignCalls,
                   al_pc, al_exc, al_ret>>
    /\ UNCHANGED AlignOthers

\* ResampleFrame with the affine of the registration the other way round
ResampleFrameOtherWayAffine ==
    /\ al_pc = "resample"
    /\ ifrm < NFrm
    /\ ifrm # rfrm
    /\ al_rsmpl' = Append(al_rsmpl, <<rfrm, ifrm, S[<<ifrm, rfrm>>]>>)
    /\ niiim' = [niiim EXCEPT ![ifrm] = <<"rsmpl", rfrm, ifrm, S[<<ifrm, rfrm>>]>>]
    /\ niidir' = niidir \cup {SpmDir}
    /\ ifrm' = ifrm + 1
    /\ UNCHANGED <<AlignArgs, al_bound, nii_frms, R, S, ck, rfrm, al_conv, al_regs, al_deleted,
                   al_pc, al_exc, al_ret>>
    /\ UNCHANGED AlignOthers

\* lines 428-440: one frame resampled into the reference space
ResampleFrame ==
    /\ al_pc = "resample"
    /\ ifrm < NFrm
    /\ ifrm # rfrm
    /\ al_rsmpl' = Append(al_rsmpl, <<rfrm, ifrm, S[<<rfrm, ifrm>>]>>)
    /\ niiim' = [niiim EXCEPT ![ifrm] = <<"rsmpl", rfrm, ifrm, S[<<rfrm, ifrm>>]>>]
    /\ niidir' = niidir \cup {SpmDir}
    /\ ifrm' = ifrm + 1
    /\ UNCHANGED <<AlignArgs, al_bound, nii_frms, R, S, ck, rfrm, al_conv, al_regs, al_deleted,
                   al_pc, al_exc, al_ret>>
    /\ UNCHANGED AlignOthers

\* line 428: the resampler raises
ResampleFails ==
    /\ al_pc = "resample"
    /\ ifrm < NFrm
    /\ ifrm # rfrm
    /\ al_rsmpl' = Append(al_rsmpl, <<rfrm, ifrm, S[<<rfrm, ifrm>>]>>)
    /\ al_pc' = "raised"
    /\ al_exc' = "ResamplingError"
    /\ UNCHANGED <<AlignArgs, niidir, AlignLocals, al_conv, al_regs, al_deleted, al_ret>>
    /\ UNCHANGED AlignOthers

\* lines 444-452: the composite is written to the aligned file
SaveAligned ==
    /\ al_pc = "resample"
    /\ ifrm = NFrm
    /\ niidir' = niidir \cup {FAligned}
    /\ al_pc' = "return"
    /\ UNCHANGED <<AlignArgs, AlignLocals, AlignCalls, al_exc, al_ret>>
    /\ UNCHANGED AlignOthers

\* line 456 with R and S bound
AlignReturn ==
    /\ al_pc = "return"
    /\ {"R", "S"} \subseteq al_bound
    /\ al_ret' = [fpet |-> FAligned, Metric |-> R, faff |-> S, outpath |-> "NIfTI_SUVr"]
    /\ al_pc' = "returned"
    /\ UNCHANGED <<AlignArgs, niidir, AlignLocals, AlignCalls, al_exc>>
    /\ UNCHANGED AlignOthers

\* line 456 after the recomputation was skipped: R was never assigned
AlignReturnUnbound ==
    /\ al_pc = "return"
    /\ ~({"R", "S"} \subseteq al_bound)
    /\ al_pc' = "raised"
    /\ al_exc' = "UnboundLocalError"
    /\ UNCHANGED <<AlignArgs, niidir, AlignLocals, AlignCalls, al_ret>>
    /\ UNCHANGED AlignOthers

\* locals and call records of a call that has just been entered
AlignFresh ==
    /\ al_pc' = "start"
    /\ al_exc' = ""
    /\ al_bound' = {}
    /\ nii_frms' = <<>>
    /\ R' = <<>>
    /\ S' = <<>>
    /\ ck' = 0
    /\ rfrm' = 0
    /\ ifrm' = 0
    /\ niiim' = <<>>
    /\ al_conv' = 0
    /\ al_regs' = <<>>
    /\ al_rsmpl' = <<>>
    /\ al_deleted' = {}
    /\ al_ret' = "none"

\* align_suvr is called again on the same frames and output folder
AlignAgain ==
    /\ al_pc \in {"returned", "raised"}
    /\ al_run < MaxRuns
    /\ al_run' = al_run + 1
    /\ al_prev' = IF al_pc = "returned" THEN "returned" ELSE al_exc
    /\ reg_force' \in BOOLEAN
    /\ AlignFresh
    /\ UNCHANGED <<frms, niidir>>
    /\ UNCHANGED AlignOthers

AlignNext ==
    \/ AlignCacheHit
    \/ AlignPurge
    \/ ConvertFrame
    \/ ConvertMismatch
    \/ AlignInitMatrices
    \/ RegisterPair
    \/ RegisterFailsOneWay
    \/ RegisterFailsOtherWay
    \/ SelectRef
    \/ SelectRefEmpty
    \/ ResampleSkipRef
    \/ ResampleFrame
    \/ ResampleFails
    \/ SaveAligned
    \/ AlignReturn
    \/ AlignReturnUnbound
    \/ AlignAgain

\* the first call of align_suvr, on an output folder that is empty or holds
\* a file left by an earlier, interrupted run
InitAlign ==
    /\ frms \in {[i \in 1..n |-> i] : n \in 0..MaxAlignFrames}
    /\ reg_force \in BOOLEAN
    /\ niidir \in {{}, {<<"left_over">>}}
    /\ al_run = 1
    /\ al_prev = "none"
    /\ al_pc = "start"
    /\ al_exc = ""
    /\ al_bound = {}
    /\ nii_frms = <<>>
    /\ R = <<>>
    /\ S = <<>>
    /\ ck = 0
    /\ rfrm = 0
    /\ ifrm = 0
    /\ niiim = <<>>
    /\ al_conv = 0
    /\ al_regs = <<>>
    /\ al_rsmpl = <<>>
    /\ al_deleted = {}
    /\ al_ret = "none"
    /\ ExploreIdle
    /\ PreprocIdle
    /\ ExtractIdle
    /\ VoiIdle

SpecAlign == InitAlign /\ [][AlignNext]_vars

----------------------------------------------------------------------------
(* Claims about align_suvr                                                 *)

AlignEnded == al_pc \in {"returned", "raised"}

\* C5: a second run with reg_force unset, after a first run that wrote the
\* aligned file, converts, registers and resamples nothing, deletes no
\* file, and returns successfully with the aligned-file path.
C5_SecondRunReturnsCachedFile ==
    (al_run = 2 /\ al_prev = "returned" /\ ~reg_force /\ AlignEnded) =>
        /\ al_conv = 0
        /\ al_regs = <<>>
        /\ al_rsmpl = <<>>
        /\ al_deleted = {}
        /\ al_pc = "returned"
        /\ al_ret.fpet = FAligned

\* the exceptions of the external calls of align_suvr
ConversionFailed == al_pc = "raised" /\ al_exc = "ValueError" /\ "R" \notin al_bound
RegistrationFailed == al_pc = "raised" /\ al_exc = "RegistrationError"
ResamplingFailed == al_pc = "raised" /\ al_exc = "ResamplingError"

NoRepeat(calls) == \A a, b \in 1..Len(calls) : calls[a] = calls[b] => a = b

\* C12: a run in which a conversion, a registration or a resampling fails
\* ends with that failure raised to the caller, the failed call made once;
\* after a failed registration no reference frame is selected from R; no
\* aligned file is left in the output folder, and the run that follows a
\* failed one does not skip the recomputation.
C12_FailureLeavesNoAlignedFile ==
    /\ (ConversionFailed \/ RegistrationFailed \/ ResamplingFailed) =>
          /\ FAligned \notin niidir
          /\ al_ret = "none"
          /\ NoRepeat(al_regs)
          /\ NoRepeat(al_rsmpl)
    /\ ConversionFailed => al_conv = Len(nii_frms) + 1
    /\ RegistrationFailed => "rfrm" \notin al_bound
    /\ (al_prev \in {"ValueError", "RegistrationError", "ResamplingError"} /\ al_pc # "start") =>
          "nii_frms" \in al_bound

\* a forced second run, after a first run that wrote the aligned file,
\* failed in a registration
C12_ForcedRerunFailedInRegistration ==
    al_run = 2 /\ al_prev = "returned" /\ reg_force /\ RegistrationFailed /\ Len(al_regs) > 1


\* the registrations of the current call are done and R, S are complete
RegistrationsDone == al_pc \in {"resample", "returned"} \/ (al_pc = "return" /\ "R" \in al_bound)

\* C14: a recomputing run over n frames calls the registration once for
\* every ordered pair (i, j), i # j, with frame i as reference and frame j
\* as floating; afterwards S[i][j] and R[i][j] hold the affine file and the
\* rotation+translation magnitude of that call, S[i][i] is null and
\* R[i][i] is 0.
C14_EveryOrderedPairRegisteredOnce ==
    RegistrationsDone =>
        /\ Len(al_regs) = NFrm * (NFrm - 1)
        /\ \A i, j \in FrmIdx :
              IF i = j
              THEN /\ S[<<i, i>>] = "None"
                   /\ R[<<i, i>>] = 0
                   /\ \A k \in 1..Len(al_regs) : ~(al_regs[k][1] = i /\ al_regs[k][2] = i)
              ELSE /\ Cardinality({k \in 1..Len(al_regs) :
                                      al_regs[k][1] = i /\ al_regs[k][2] = j}) = 1
                   /\ \A k \in 1..Len(al_regs) :
                         (al_regs[k][1] = i /\ al_regs[k][2] = j) =>
                             al_regs[k][3] = <<R[<<i, j>>]>>
                   /\ S[<<i, j>>] = AffFile(i, j)

\* a run over the largest frame set has returned with unequal metrics
C14_ThreeFramesRegistered ==
    /\ al_pc = "returned"
    /\ NFrm = MaxAlignFrames
    /\ \E i, j \in FrmIdx : i # j /\ R[<<i, j>>] # R[<<j, i>>]


\* the motion of the registrations frame i took part in, summed over the
\* results of the calls whatever the order they were made in
MotionOf(i) ==
    SumOver([k \in 1..Len(al_regs) |->
                IF al_regs[k][1] = i \/ al_regs[k][2] = i THEN al_regs[k][3][1] ELSE 0],
            1..Len(al_regs))

CompositeBuilt == al_pc \in {"return", "returned"} /\ "niiim" \in al_bound

\* C16: in the composite over n frames with reference index r, slot r is
\* the copy of the reference frame and the resampler is never called with
\* frame r as floating; every other slot i is the result of the one
\* resampling call with reference r, floating i and the affine S[r][i] of
\* the registration of i onto r; n-1 resampling calls are made.
C16_CompositeCopiesRefAndResamplesOthers ==
    CompositeBuilt =>
        /\ Len(al_rsmpl) = NFrm - 1
        /\ niiim[rfrm] = <<"copy", nii_frms[rfrm + 1]>>
        /\ \A k \in 1..Len(al_rsmpl) : al_rsmpl[k][2] # rfrm
        /\ \A i \in FrmIdx \ {rfrm} :
              /\ Cardinality({k \in 1..Len(al_rsmpl) : al_rsmpl[k][2] = i}) = 1
              /\ \A k \in 1..Len(al_rsmpl) :
                    al_rsmpl[k][2] = i => al_rsmpl[k] = <<rfrm, i, AffFile(rfrm, i)>>
              /\ S[<<rfrm, i>>] = AffFile(rfrm, i)
              /\ niiim[i] = <<"rsmpl", rfrm, i, AffFile(rfrm, i)>>

\* a composite of three frames around the middle frame
C16_CompositeAroundMiddleFrame ==
    CompositeBuilt /\ al_pc = "returned" /\ NFrm = MaxAlignFrames /\ rfrm = 1


----------------------------------------------------------------------------
(* preproc_suvr, for a pet_path that is an existing NIfTI file             *)

MaxNfrm == 3
MaxFrameList == 2
MaxCalls == 2

\* voxel intensities of a frame
Intensities == {1, 2}

\* imdct['hdr']['dim'][4]
nfrm == Len(imdct_im)

RECURSIVE MaxOf(_)
MaxOf(s) == IF Len(s) = 1 THEN s[1]
            ELSE LET m == MaxOf(Tail(s)) IN IF s[1] >= m THEN s[1] ELSE m

\* `frames` is a non-empty list (None and [] are both falsy)
Truthy(fr) == fr # <<>>

\* the test of line 107
FramesRejected(fr, n) == Truthy(fr) /\ n < MaxOf(fr)

\* np.arange(nfrm)
Arange(n) == [i \in 1..n |-> i - 1]

\* an index of the list is outside the first axis of the image
OutOfRange(fr, n) == \E k \in 1..Len(fr) : fr[k] >= n

RECURSIVE SumFrames(_, _)
\* np.sum(imdct['im'][frames, ...], axis=0)
SumFrames(img, fr) ==
    IF fr = <<>> THEN 0 ELSE img[fr[1] + 1] + SumFrames(img, Tail(fr))

PreprocOthers == <<ei_vars, al_vars, ev_vars, vp_vars>>

PreprocArgs == <<imdct_im, frames, force, com_correction, ps_run>>

\* lines 107-108
PreprocRejectFrames ==
    /\ ps_pc = "start"
    /\ FramesRejected(frames, nfrm)
    /\ ps_pc' = "raised"
    /\ ps_exc' = "ValueError"
    /\ UNCHANGED <<PreprocArgs, fstat, fcom, ps_frames, ps_bound, ps_sums, ps_writes,
                   ps_coms, ps_ret>>
    /\ UNCHANGED PreprocOthers

\* lines 107-116: the frame list passes, or is replaced by all frames
PreprocAcceptFrames ==
    /\ ps_pc = "start"
    /\ ~FramesRejected(frames, nfrm)
    /\ ps_frames' = IF Truthy(frames) THEN frames ELSE Arange(nfrm)
    /\ ps_pc' = "checked"
    /\ UNCHANGED <<PreprocArgs, fstat, fcom, ps_exc, ps_bound, ps_sums, ps_writes,
                   ps_coms, ps_ret>>
    /\ UNCHANGED PreprocOthers

\* line 119 false: the static file exists and force is unset
PreprocSkip ==
    /\ ps_pc = "checked"
    /\ ~(fstat = <<>> \/ force)
    /\ ps_pc' = "return"
    /\ UNCHANGED <<PreprocArgs, fstat, fcom, ps_exc, ps_frames, ps_bound, ps_sums,
                   ps_writes, ps_coms, ps_ret>>
    /\ UNCHANGED PreprocOthers

\* line 122 with an index outside the image: numpy raises IndexError
PreprocSumIndexError ==
    /\ ps_pc = "checked"
    /\ fstat = <<>> \/ force
    /\ nfrm > 1
    /\ OutOfRange(ps_frames, nfrm)
    /\ ps_sums' = ps_sums + 1
    /\ ps_pc' = "raised"
    /\ ps_exc' = "IndexError"
    /\ UNCHANGED <<PreprocArgs, fstat, fcom, ps_frames, ps_bound, ps_writes, ps_coms,
                   ps_ret>>
    /\ UNCHANGED PreprocOthers

\* the static image of lines 121-124
ImStat == IF nfrm > 1 THEN SumFrames(imdct_im, ps_frames) ELSE imdct_im[1]

\* lines 119-135 with com_correction set
PreprocBuildCom ==
    /\ ps_pc = "checked"
    /\ fstat = <<>> \/ force
    /\ nfrm > 1 => ~OutOfRange(ps_frames, nfrm)
    /\ com_correction
    /\ ps_sums' = IF nfrm > 1 THEN ps_sums + 1 ELSE ps_sums
    /\ fstat' = <<ImStat>>
    /\ ps_writes' = ps_writes + 1
    /\ fcom' = TRUE
    /\ ps_coms' = ps_coms + 1
    /\ ps_bound' = ps_bound \cup {"imstat", "fsuvr_com"}
    /\ ps_pc' = "return"
    /\ UNCHANGED <<PreprocArgs, ps_exc, ps_frames, ps_ret>>
    /\ UNCHANGED PreprocOthers

\* lines 119-131 with com_correction unset
PreprocBuildNoCom ==
    /\ ps_pc = "checked"
    /\ fstat = <<>> \/ force
    /\ nfrm > 1 => ~OutOfRange(ps_frames, nfrm)
    /\ ~com_correction
    /\ ps_sums' = IF nfrm > 1 THEN ps_sums + 1 ELSE ps_sums
    /\ fstat' = <<ImStat>>
    /\ ps_writes' = ps_writes + 1
    /\ ps_bound' = ps_bound \cup {"imstat"}
    /\ ps_pc' = "return"
    /\ UNCHANGED <<PreprocArgs, fcom, ps_exc, ps_frames, ps_coms, ps_ret>>
    /\ UNCHANGED PreprocOthers

\* line 139 with fsuvr_com bound
PreprocReturn ==
    /\ ps_pc = "return"
    /\ "fsuvr_com" \in ps_bound
    /\ ps_ret' = TRUE
    /\ ps_pc' = "returned"
    /\ UNCHANGED <<PreprocArgs, fstat, fcom, ps_exc, ps_frames, ps_bound, ps_sums,
                   ps_writes, ps_coms>>
    /\ UNCHANGED PreprocOthers

\* line 139 when line 134 was not executed: fsuvr_com was never assigned
PreprocReturnUnbound ==
    /\ ps_pc = "return"
    /\ "fsuvr_com" \notin ps_bound
    /\ ps_pc' = "raised"
    /\ ps_exc' = "UnboundLocalError"
    /\ UNCHANGED <<PreprocArgs, fstat, fcom, ps_frames, ps_bound, ps_sums, ps_writes,
                   ps_coms, ps_ret>>
    /\ UNCHANGED PreprocOthers

\* the arguments of one call on an image of n frames
PreprocInputs(n) ==
    LET idx   == 0..(n + 1)
        lists == UNION {[1..k -> idx] : k \in 0..MaxFrameList}
    IN  lists

\* preproc_suvr is called again on the same image and output folder
PreprocAgain ==
    /\ ps_pc \in {"returned", "raised"}
    /\ ps_run < MaxCalls
    /\ ps_run' = ps_run + 1
    /\ frames' \in PreprocInputs(nfrm)
    /\ force' \in BOOLEAN
    /\ com_correction' \in BOOLEAN
    /\ ps_pc' = "start"
    /\ ps_exc' = ""
    /\ ps_frames' = <<>>
    /\ ps_bound' = {}
    /\ ps_sums' = 0
    /\ ps_writes' = 0
    /\ ps_coms' = 0
    /\ ps_ret' = FALSE
    /\ UNCHANGED <<imdct_im, fstat, fcom>>
    /\ UNCHANGED PreprocOthers

PreprocNext ==
    \/ PreprocRejectFrames
    \/ PreprocAcceptFrames
    \/ PreprocSkip
    \/ PreprocSumIndexError
    \/ PreprocBuildCom
    \/ PreprocBuildNoCom
    \/ PreprocReturn
    \/ PreprocReturnUnbound
    \/ PreprocAgain

\* the first call of preproc_suvr, the output folder holding no static file
InitPreproc ==
    /\ imdct_im \in UNION {[1..n -> Intensities] : n \in 1..MaxNfrm}
    /\ frames \in PreprocInputs(Len(imdct_im))
    /\ force \in BOOLEAN
    /\ com_correction \in BOOLEAN
    /\ fstat = <<>>
    /\ fcom = FALSE
    /\ ps_run = 1
    /\ ps_pc = "start"
    /\ ps_exc = ""
    /\ ps_frames = <<>>
    /\ ps_bound = {}
    /\ ps_sums = 0
    /\ ps_writes = 0
    /\ ps_coms = 0
    /\ ps_ret = FALSE
    /\ ExploreIdle
    /\ AlignIdle
    /\ ExtractIdle
    /\ VoiIdle

SpecPreproc == InitPreproc /\ [][PreprocNext]_vars

----------------------------------------------------------------------------
(* extract_vois, for impet and atlas given as arrays and outpath None      *)

MaxVox == 4
MaxVoiFrames == 2
MaxLabel == 2

Voxels == 1..Len(lbls)

RECURSIVE Gcd(_, _)
Gcd(a, b) == IF b = 0 THEN a ELSE Gcd(b, a % b)

\* numpy's emsum / vxsum for a non-negative sum: nan for 0/0 and inf for x/0,
\* with a RuntimeWarning only; a finite quotient is kept as a reduced fraction
Divide(sum, cnt) ==
    IF cnt = 0
    THEN [kind |-> IF sum = 0 THEN "nan" ELSE "inf", num |-> 0, den |-> 0]
    ELSE [kind |-> "num", num |-> sum \div Gcd(sum, cnt), den |-> cnt \div Gcd(sum, cnt)]

\* rmsk after lines 238-246: the voxels whose label is one of the VOI's
LabelMask(lb, labels) == {v \in 1..Len(lb) : lb[v] \in labels}

\* rmsk after line 247: `rmsk * amsk` is evaluated and its value dropped
RoiMask(lb, labels, amsk) == LabelMask(lb, labels)

RECURSIVE SumSet(_, _)
\* np.sum(frame[rmsk])
SumSet(frame, msk) ==
    IF msk = {} THEN 0
    ELSE LET v == CHOOSE x \in msk : TRUE IN frame[v] + SumSet(frame, msk \ {v})

\* the entry out[voi] of line 272 for a 4D image
VoiEntry4D(voi) ==
    LET rmsk  == RoiMask(lbls, voi.labels, atlas_mask)
        vxsum == Cardinality(rmsk)
        emsum == [fi \in 1..Len(im.data) |-> SumSet(im.data[fi], rmsk)]
    IN  [voi |-> voi.voi, vox_no |-> vxsum, sum |-> emsum,
         avg |-> [fi \in 1..Len(im.data) |-> Divide(emsum[fi], vxsum)],
         roimsk |-> IF output_masks THEN <<rmsk>> ELSE <<>>]

ExtractOthers == <<ei_vars, al_vars, ps_vars, vp_vars>>

ExtractArgs == <<im, lbls, voi_dct, atlas_mask, output_masks>>

\* lines 233-275 for a 4D image
ExtractVoi4D ==
    /\ ev_pc = "loop"
    /\ vk < Len(voi_dct)
    /\ im.ndim = 4
    /\ vk' = vk + 1
    /\ out' = Append(out, VoiEntry4D(voi_dct[vk + 1]))
    /\ UNCHANGED <<ExtractArgs, ev_pc, ev_exc>>
    /\ UNCHANGED ExtractOthers

\* line 265 for an image that is not 4D: an array has no attribute `ndims`
ExtractVoiNdimsError ==
    /\ ev_pc = "loop"
    /\ vk < Len(voi_dct)
    /\ im.ndim # 4
    /\ vk' = vk + 1
    /\ ev_pc' = "raised"
    /\ ev_exc' = "AttributeError"
    /\ UNCHANGED <<ExtractArgs, out>>
    /\ UNCHANGED ExtractOthers

\* line 279
ExtractReturn ==
    /\ ev_pc = "loop"
    /\ vk = Len(voi_dct)
    /\ ev_pc' = "returned"
    /\ UNCHANGED <<ExtractArgs, vk, out, ev_exc>>
    /\ UNCHANGED ExtractOthers

ExtractNext ==
    \/ ExtractVoi4D
    \/ ExtractVoiNdimsError
    \/ ExtractReturn

\* the image of nv voxels whose voxel v has intensity v + f - 1 in frame f
Image(ndim, nfr, nv) ==
    [ndim |-> ndim, data |-> [f \in 1..nfr |-> [v \in 1..nv |-> v + f - 1]]]

Images(nv) ==
    {Image(d, 1, nv) : d \in {2, 3}} \cup {Image(4, nfr, nv) : nfr \in 1..MaxVoiFrames}

\* masks keeping the first k voxels
AtlasMasks(nv) == {<<>>} \cup {[v \in 1..nv |-> IF v <= k THEN 1 ELSE 0] : k \in 0..nv}

VoiDicts ==
    {<<[voi |-> "neocx", labels |-> {1}], [voi |-> "cblgm", labels |-> {2}]>>,
     <<[voi |-> "absent", labels |-> {MaxLabel + 1}], [voi |-> "both", labels |-> {1, 2}]>>,
     <<[voi |-> "all", labels |-> 0..MaxLabel]>>}

InitExtract ==
    /\ lbls \in UNION {[1..nv -> 0..MaxLabel] : nv \in {1, MaxVox}}
    /\ im \in Images(Len(lbls))
    /\ atlas_mask \in AtlasMasks(Len(lbls))
    /\ voi_dct \in VoiDicts
    /\ output_masks \in BOOLEAN
    /\ vk = 0
    /\ out = <<>>
    /\ ev_pc = "loop"
    /\ ev_exc = ""
    /\ ExploreIdle
    /\ AlignIdle
    /\ PreprocIdle
    /\ VoiIdle

SpecExtract == InitExtract /\ [][ExtractNext]_vars

----------------------------------------------------------------------------
(* voi_process: the calls of lines 333-365.  preproc_suvr is called with   *)
(* its defaults force=True and com_correction=True; the dictionary it      *)
(* returns (line 139) has the keys fpet_nii, fsuvr, fcom and com.          *)

\* the key of the default dictionary for a label (an int in the code)
LabelKey(lab) == <<"0", "1", "2", "3">>[lab + 1]

RECURSIVE SortSet(_)
\* np.unique: the distinct values in ascending order
SortSet(A) ==
    IF A = {} THEN <<>>
    ELSE LET m == CHOOSE x \in A : \A y \in A : x <= y
         IN  <<m>> \o SortSet(A \ {m})

\* lines 340-342: one VOI per label of the label image
DefaultVoiDct(lb) ==
    LET u == SortSet({lb[v] : v \in 1..Len(lb)})
    IN  [k \in 1..Len(u) |-> [voi |-> LabelKey(u[k]), labels |-> {u[k]}]]

\* the local voi_dct after line 342
LocalVoiDct == IF voi_given THEN voi_dct ELSE DefaultVoiDct(lbls)

VoiKeys(d) == {d[k].voi : k \in 1..Len(d)}

\* the test of line 344
RefNotDefined ==
    /\ ref_voi.given
    /\ \E k \in 1..Len(ref_voi.names) : ref_voi.names[k] \notin VoiKeys(LocalVoiDct)

\* the keys of the dictionary returned by preproc_suvr (line 139)
PreprocKeys == {"fpet_nii", "fsuvr", "fcom", "com"}

VoiOthers == <<ei_vars, al_vars>>

VoiArgs == <<paths_exist, voi_given, ref_voi, t1_bias_corr>>

VoiExtractUntouched == <<im, lbls, atlas_mask, output_masks, vk, out, ev_pc, ev_exc>>

\* lines 333-336: one of the three paths is wrong
VoiBadPaths ==
    /\ vp_pc = "start"
    /\ ~paths_exist
    /\ vp_out' = vp_out \cup {"input"}
    /\ vp_pc' = "raised"
    /\ vp_exc' = "ValueError"
    /\ UNCHANGED <<VoiArgs, vp_suvr, ps_vars, ev_vars>>
    /\ UNCHANGED VoiOthers

\* lines 333-345: a reference region is not a key of the VOI dictionary
VoiRefNotDefined ==
    /\ vp_pc = "start"
    /\ paths_exist
    /\ RefNotDefined
    /\ vp_out' = vp_out \cup {"input"}
    /\ voi_dct' = LocalVoiDct
    /\ vp_pc' = "raised"
    /\ vp_exc' = "ValueError"
    /\ UNCHANGED <<VoiArgs, vp_suvr, ps_vars, VoiExtractUntouched>>
    /\ UNCHANGED VoiOthers

\* lines 333-349: the arguments pass and preproc_suvr is entered
VoiCallPreproc ==
    /\ vp_pc = "start"
    /\ paths_exist
    /\ ~RefNotDefined
    /\ vp_out' = vp_out \cup {"input"}
    /\ voi_dct' = LocalVoiDct
    /\ vp_pc' = "preproc"
    /\ ps_pc' = "start"
    /\ ps_run' = ps_run + 1
    /\ UNCHANGED <<VoiArgs, vp_exc, vp_suvr, VoiExtractUntouched>>
    /\ UNCHANGED <<imdct_im, frames, force, com_correction, fstat, fcom, ps_exc, ps_frames,
                   ps_bound, ps_sums, ps_writes, ps_coms, ps_ret>>
    /\ UNCHANGED VoiOthers

\* lines 348-350: the exception of preproc_suvr leaves voi_process
VoiPreprocRaised ==
    /\ vp_pc = "preproc"
    /\ ps_pc = "raised"
    /\ vp_pc' = "raised"
    /\ vp_exc' = ps_exc
    /\ UNCHANGED <<VoiArgs, vp_out, vp_suvr, ps_vars, ev_vars>>
    /\ UNCHANGED VoiOthers

\* lines 352-356 with t1_bias_corr: the argument suvr_preproc['fstat'] of
\* bias_field_correction is not a key of the dictionary
VoiBiasCorrKeyError ==
    /\ vp_pc = "preproc"
    /\ ps_pc = "returned"
    /\ t1_bias_corr
    /\ "fstat" \notin PreprocKeys
    /\ vp_out' = vp_out \cup PreprocKeys
    /\ vp_pc' = "raised"
    /\ vp_exc' = "KeyError"
    /\ UNCHANGED <<VoiArgs, vp_suvr, ps_vars, ev_vars>>
    /\ UNCHANGED VoiOthers

\* lines 352-365 without t1_bias_corr: the argument suvr_preproc['fstat'] of
\* r_trimup is not a key of the dictionary
VoiTrimupKeyError ==
    /\ vp_pc = "preproc"
    /\ ps_pc = "returned"
    /\ ~t1_bias_corr
    /\ "fstat" \notin PreprocKeys
    /\ vp_out' = vp_out \cup PreprocKeys
    /\ vp_pc' = "raised"
    /\ vp_exc' = "KeyError"
    /\ UNCHANGED <<VoiArgs, vp_suvr, ps_vars, ev_vars>>
    /\ UNCHANGED VoiOthers

VoiNext ==
    \/ VoiBadPaths
    \/ VoiRefNotDefined
    \/ VoiCallPreproc
    \/ PreprocRejectFrames
    \/ PreprocAcceptFrames
    \/ PreprocSumIndexError
    \/ PreprocBuildCom
    \/ PreprocReturn
    \/ VoiPreprocRaised
    \/ VoiBiasCorrKeyError
    \/ VoiTrimupKeyError

RefVois ==
    {[given |-> FALSE, names |-> <<>>], [given |-> TRUE, names |-> <<>>],
     [given |-> TRUE, names |-> <<"cblgm">>], [given |-> TRUE, names |-> <<"cblgm", "neocx">>],
     [given |-> TRUE, names |-> <<"1">>]}

\* voi_process is entered; the output folder holds no static file
InitVoi ==
    /\ paths_exist \in BOOLEAN
    /\ voi_given \in BOOLEAN
    /\ ref_voi \in RefVois
    /\ t1_bias_corr \in BOOLEAN
    /\ vp_pc = "start"
    /\ vp_exc = ""
    /\ vp_out = {}
    /\ vp_suvr = {}
    /\ imdct_im \in UNION {[1..n -> Intensities] : n \in 1..MaxNfrm}
    /\ frames \in PreprocInputs(Len(imdct_im))
    /\ force = TRUE
    /\ com_correction = TRUE
    /\ fstat = <<>>
    /\ fcom = FALSE
    /\ ps_run = 0
    /\ ps_pc = "idle"
    /\ ps_exc = ""
    /\ ps_frames = <<>>
    /\ ps_bound = {}
    /\ ps_sums = 0
    /\ ps_writes = 0
    /\ ps_coms = 0
    /\ ps_ret = FALSE
    /\ lbls \in {<<1>>, <<0, 1, 2, 2>>}
    /\ voi_dct \in IF voi_given THEN VoiDicts ELSE {<<>>}
    /\ im = [ndim |-> 3, data |-> <<>>]
    /\ atlas_mask = <<>>
    /\ output_masks = FALSE
    /\ vk = 0
    /\ out = <<>>
    /\ ev_pc = "idle"
    /\ ev_exc = ""
    /\ ExploreIdle
    /\ AlignIdle

SpecVoi == InitVoi /\ [][VoiNext]_vars

----------------------------------------------------------------------------
(* Claims about preproc_suvr                                               *)

PreprocEnded == ps_pc \in {"returned", "raised"}

\* C6: when the static file is already on disk and force is unset, the call
\* writes no static file, invokes no centre-of-mass correction and returns
\* its result; a call with com_correction disabled returns its result too,
\* without invoking the correction.  (A call that ended with force unset,
\* the file on disk and no write of its own found the file at entry.)
C6_SkipAndNoComReturn ==
    /\ (PreprocEnded /\ ps_exc # "ValueError" /\ ~force /\ fstat # <<>> /\ ps_writes = 0) =>
          /\ ps_coms = 0
          /\ ps_pc = "returned"
    /\ (PreprocEnded /\ ps_exc \notin {"ValueError", "IndexError"} /\ ~com_correction) =>
          /\ ps_coms = 0
          /\ ps_pc = "returned"

\* C7: a frame list with an index >= nfrm is rejected with ValueError before
\* any summation, file write or centre-of-mass correction; a list whose
\* indices are all < nfrm passes the validation.
C7_MissingFramesRejected ==
    ps_pc # "start" =>
        IF OutOfRange(frames, nfrm)
        THEN /\ ps_pc = "raised"
             /\ ps_exc = "ValueError"
             /\ ps_sums = 0
             /\ ps_writes = 0
             /\ ps_coms = 0
        ELSE ps_exc # "ValueError"

----------------------------------------------------------------------------
(* Claims about extract_vois                                               *)

\* the voxels of a VOI: label in the VOI's set and set in the atlas mask
MaskedVoi(labels) ==
    {v \in Voxels : lbls[v] \in labels /\ (atlas_mask = <<>> \/ atlas_mask[v] = 1)}

\* C8: for every VOI sampled, the mask is the set of voxels labelled by the
\* VOI and set in the atlas mask, and the voxel count and the intensity sums
\* are taken over that mask.
C8_MaskIntersectsAtlasMask ==
    \A k \in 1..Len(out) :
        LET msk == MaskedVoi(voi_dct[k].labels)
        IN  /\ out[k].vox_no = Cardinality(msk)
            /\ out[k].sum = [fi \in 1..Len(im.data) |-> SumSet(im.data[fi], msk)]
            /\ output_masks => out[k].roimsk = <<msk>>

\* C9: a 3D volume gives, per VOI, the sum under the mask and avg = sum /
\* count (values 1,2,3,4 under the mask: count 4, average 5/2); a 4D volume
\* gives one sum and one average per frame; any other dimensionality raises
\* the 'unrecognised image shape or dimensions' ValueError.
C9_SumAndAverageByDimension ==
    ev_pc \in {"returned", "raised"} =>
        CASE im.ndim = 3 ->
               /\ ev_pc = "returned"
               /\ Len(out) = Len(voi_dct)
               /\ \A k \in 1..Len(out) :
                     /\ out[k].sum = SumSet(im.data[1], RoiMask(lbls, voi_dct[k].labels, atlas_mask))
                     /\ out[k].avg = Divide(out[k].sum, out[k].vox_no)
                     /\ (out[k].vox_no = 4 /\ out[k].sum = 10) =>
                           out[k].avg = [kind |-> "num", num |-> 5, den |-> 2]
          [] im.ndim = 4 ->
               /\ ev_pc = "returned"
               /\ \A k \in 1..Len(out) :
                     /\ Len(out[k].sum) = Len(im.data)
                     /\ Len(out[k].avg) = Len(im.data)
          [] OTHER ->
               /\ ev_pc = "raised"
               /\ ev_exc = "ValueError"

\* C10: a VOI matching no voxel is reported as an error of that VOI, no NaN
\* or infinite average being stored for it, and the other VOIs of the
\* dictionary are still sampled and returned.
C10_EmptyVoiReported ==
    /\ \A k \in 1..Len(out) :
          out[k].vox_no = 0 =>
              \A fi \in 1..Len(out[k].avg) : out[k].avg[fi].kind = "num"
    /\ (ev_pc = "returned" /\ im.ndim = 4) => Len(out) = Len(voi_dct)

----------------------------------------------------------------------------
(* Claims about voi_process                                                *)

\* the entry of the VOI named v in the result of extract_vois
VoiAvg(v) == (CHOOSE e \in {out[k] : k \in 1..Len(out)} : e.voi = v).avg

\* the quotient of two finite averages, as a reduced fraction
RatioOf(a, b) ==
    LET n == a.num * b.den
        d == a.den * b.num
    IN  [kind |-> "num", num |-> n \div Gcd(n, d), den |-> d \div Gcd(n, d)]

VoiEnded == vp_pc \in {"returned", "raised"}

\* the call is one the documentation accepts: paths right, reference
\* regions given and defined, frame indices inside the image
VoiCallValid ==
    /\ paths_exist
    /\ ref_voi.given
    /\ ref_voi.names # <<>>
    /\ ~RefNotDefined
    /\ ~OutOfRange(frames, nfrm)

\* C11: for every reference region r and every VOI v, suvr[r][v] is the
\* average of v divided by the average of r (2.0 over 1.0 gives 2.0); when
\* the average of r is 0 a division error is raised and no infinite or NaN
\* ratio is returned.
C11_SuvrIsRatioOfAverages ==
    (VoiEnded /\ VoiCallValid) =>
        \/ /\ vp_pc = "returned"
           /\ \A k \in 1..Len(ref_voi.names) : \A v \in VoiKeys(voi_dct) :
                 LET r == ref_voi.names[k]
                 IN  /\ VoiAvg(r).kind = "num" /\ VoiAvg(r).num # 0
                     /\ <<r, v, RatioOf(VoiAvg(v), VoiAvg(r))>> \in vp_suvr
                     /\ (VoiAvg(v) = [kind |-> "num", num |-> 2, den |-> 1]
                            /\ VoiAvg(r) = [kind |-> "num", num |-> 1, den |-> 1])
                          => <<r, v, [kind |-> "num", num |-> 2, den |-> 1]>> \in vp_suvr
        \/ /\ vp_pc = "raised"
           /\ vp_exc = "ZeroDivisionError"

====
